---- MODULE Spec2Model ----
(***************************************************************************)
(* Fastrict: the rate-limit decision engine (RateLimitUseCase) and the     *)
(* middleware in front of it (RateLimitMiddleware), as a state machine.    *)
(* Python's None is the empty sequence and a present optional value x is   *)
(* the one-element sequence <<x>>.                                         *)
(***************************************************************************)
EXTENDS Integers, Sequences, FiniteSets, TLC

\* ------------------------------------------------------------------ bounds
NumCallers == 2
MaxLimit == 2

Callers == 1..NumCallers
\* the store is driven at most this far: two denied calls above the largest limit
MaxCount == MaxLimit + 2

\* ------------------------------------------------------------ Python values
None == <<>>
Some(x) == <<x>>
IsNone(o) == o = <<>>
Val(o) == o[1]

\* ------------------------------------------------------- strategies (entities)
StrategyNames == {"short", "medium", "long"}
RateLimitStrategy(n, l, t) == [name |-> n, limit |-> l, ttl |-> t]

ShortLimit == 3
ShortTtl == 60
MediumLimit == 20
MediumTtl == 600
LongLimit == 100
LongTtl == 3600

get_default_strategies ==
  << RateLimitStrategy("short", ShortLimit, ShortTtl),
     RateLimitStrategy("medium", MediumLimit, MediumTtl),
     RateLimitStrategy("long", LongLimit, LongTtl) >>

\* {strategy.name: strategy for strategy in strategies}: a later entry of the
\* list replaces an earlier one of the same name
StrategyMapOf(strategies) ==
  [n \in {strategies[i].name : i \in DOMAIN strategies} |->
     LET last == CHOOSE i \in DOMAIN strategies :
                   /\ strategies[i].name = n
                   /\ \A j \in DOMAIN strategies : strategies[j].name = n => j <= i
     IN strategies[last]]

\* dict.get(name): None when the name is no key of the map (the empty map is
\* the empty sequence)
MapGet(map, name) ==
  IF map # <<>> /\ name \in DOMAIN map THEN Some(map[name]) ELSE None

\* RateLimitUseCase.__init__: a falsy (None or empty) list gives the built-in defaults
InitStrategies(default_strategies) ==
  IF IsNone(default_strategies) \/ Val(default_strategies) = <<>>
    THEN get_default_strategies
    ELSE Val(default_strategies)

\* the strategy lists callers construct and update the engine with
ListA == << RateLimitStrategy("short", 1, 1), RateLimitStrategy("medium", MaxLimit, 2) >>
ListB == << RateLimitStrategy("long", 1, 2) >>
StrategyLists == {ListA, ListB, <<>>}

\* strategy objects a caller passes in config.strategy; the name "short" is in
\* ListA with other numbers and is absent from ListB
CustomStrategies ==
  {RateLimitStrategy("short", l, t) : l \in 1..MaxLimit, t \in {1, 2}}

\* --------------------------------------------------------- requests and keys
KeyExtractionStrategy(t, f) == [type |-> t, field |-> f]
IpKeyStrategy == KeyExtractionStrategy("IP", None)
HeaderKeyStrategy == KeyExtractionStrategy("HEADER", Some("X-Api-Key"))

Request(ip, hdr, path) == [ip |-> ip, header |-> hdr, path |-> path]
Keys == {<<"IP", "a">>, <<"HEADER", "a">>}

KeyExtractionError == [kind |-> "error", type |-> "KeyExtractionError"]
StoreError == [kind |-> "error", type |-> "StoreError"]

\* KeyExtractionUseCase.extract_key: IP is the peer address; HEADER reads the
\* field, and fails when it is absent and the strategy has no default value
extract_key(req, key_strategy) ==
  IF key_strategy.type = "IP"
    THEN [ok |-> TRUE, key |-> <<"IP", req.ip>>]
    ELSE IF IsNone(req.header)
      THEN [ok |-> FALSE, exc |-> KeyExtractionError]
      ELSE [ok |-> TRUE, key |-> <<"HEADER", Val(req.header)>>]

\* ------------------------------------------------------------------- config
RateLimitConfig(s, n, k, b, m, e) ==
  [strategy |-> s, strategy_name |-> n, key_extraction |-> k,
   bypass_function |-> b, custom_error_message |-> m, enabled |-> e]

\* a bypass predicate is one of three functions of the request
BypassFunctions == {"returns_true", "returns_false", "raises"}
BypassCall(fn, req) ==
  IF fn = "raises" THEN [raised |-> TRUE, value |-> FALSE]
  ELSE [raised |-> FALSE, value |-> (fn = "returns_true")]

\* ------------------------------------------------------------------ results
StatusTooMany == 429
StatusServerError == 500

RateLimitResult(allowed, k, count, s, retry_after) ==
  [kind |-> "result", allowed |-> allowed, key |-> k, current_count |-> count,
   limit |-> s.limit, ttl |-> s.ttl, retry_after |-> retry_after,
   strategy_name |-> s.name]

\* RateLimitResult.to_headers: X-RateLimit-Limit, -Remaining, -Reset (the ttl),
\* -Used (the count), and Retry-After only when the request is not allowed
to_headers(res) ==
  [limit |-> res.limit,
   remaining |-> IF res.limit > res.current_count
                   THEN res.limit - res.current_count ELSE 0,
   reset |-> res.ttl,
   used |-> res.current_count,
   retry_after |-> IF res.allowed THEN None ELSE res.retry_after]

RateLimitHTTPException(message, retry_after, s, headers) ==
  [kind |-> "exceeded", status_code |-> StatusTooMany,
   detail |-> [message |-> message, retry_after |-> retry_after,
               limit |-> s.limit, window |-> s.ttl],
   headers |-> headers]

RateLimitException(message, arg) ==
  [kind |-> "error", type |-> "RateLimitException", message |-> message,
   arg |-> arg, status_code |-> StatusServerError]

NoResult == [kind |-> "none"]

\* --------------------------------------------------------------- the store
\* IRateLimitRepository: per key a counter and the seconds left before it
\* expires; count 0 is a key that does not exist
NoEntry == [count |-> 0, ttl |-> 0]

\* increment_counter(key, ttl): creates the key with value 1 and expiry ttl, or
\* increments it leaving its expiry alone; one atomic operation
increment_counter(st, k, ttl) ==
  IF st[k].count = 0
    THEN [st EXCEPT ![k] = [count |-> 1, ttl |-> ttl]]
    ELSE [st EXCEPT ![k].count = @ + 1]

\* get_current_count(key): the value, 0 for a key that does not exist
get_current_count(st, k) == st[k].count

\* one second passes: every key is one second closer to its expiry and is
\* removed when none is left
Expire(st) ==
  [k \in Keys |->
     IF st[k].count = 0 \/ st[k].ttl <= 1 THEN NoEntry
     ELSE [st[k] EXCEPT !.ttl = @ - 1]]

\* ----------------------------------------------------------------- engine
VARIABLES
  strategy_map,        \* RateLimitUseCase._strategy_map
  default_strategies,  \* RateLimitUseCase.default_strategies
  store,               \* the counters of the repository
  pc,                  \* per caller: where its call stands
  op,                  \* per caller: the operation it called
  args,                \* per caller: the arguments of the call
  local,               \* per caller: strategy and rate_limit_key of the call
  result,              \* per caller: what the call returned or raised
  logged,              \* per caller: the exceptions the call logged
  store_calls,         \* per caller: the store operations the call issued
  issued,              \* per key: the check calls counted in its current window
  window,              \* per key: the ttl its window was created with, and its age
  verdicts,            \* per key: the checks its window allowed and denied
  mw_enabled,          \* RateLimitMiddleware.enabled
  mw_default_strategy_name,  \* RateLimitMiddleware.default_strategy_name
  mw_stage,            \* per caller: where its dispatch stands
  mw_call,             \* per caller: the request of the dispatch and its route config
  in_try,              \* per caller: the place of dispatch that awaits call_next
  forwarded,           \* per caller: the times dispatch invoked call_next
  response,            \* per caller: what dispatch returned or raised
  installed,           \* the call that last gave the engine a strategy list
  returned             \* what get_strategy or list_strategies last returned

mwVars == << mw_enabled, mw_default_strategy_name, mw_stage, mw_call, in_try,
             forwarded, response >>
regVars == << installed, returned >>
vars == << strategy_map, default_strategies, store, pc, op, args, local,
           result, logged, store_calls,
           issued, window, verdicts, mwVars, regVars >>

\* the call that gave the engine its list: the operation, the list as passed,
\* and whether default_strategies is the very list object the caller holds
Installed(o, strategies, shared) ==
  [op |-> o, arg |-> strategies, shared |-> shared]
NothingReturned == [op |-> "none"]
\* the window of a key that does not exist
NoWindow == [ttl |-> 0, age |-> 0]
\* the verdicts of a window in which no check was counted
NoVerdicts == [allowed |-> 0, denied |-> 0]
\* the verdicts of a window after one more counted check ended with r
Verdict(v, r) ==
  IF r.kind = "result" /\ r.allowed THEN [v EXCEPT !.allowed = @ + 1]
  ELSE IF r.kind = "exceeded" THEN [v EXCEPT !.denied = @ + 1]
  ELSE v

\* a faulty _determine_strategy: an unknown config.strategy_name falls back to
\* the default strategy instead of failing
DetermineStrategyFallingBack(map, config, default_strategy_name) ==
  IF ~IsNone(config) /\ ~IsNone(Val(config).strategy)
    THEN [ok |-> TRUE, strategy |-> Val(Val(config).strategy)]
  ELSE IF /\ ~IsNone(config) /\ ~IsNone(Val(config).strategy_name)
          /\ ~IsNone(MapGet(map, Val(Val(config).strategy_name)))
    THEN [ok |-> TRUE,
          strategy |-> Val(MapGet(map, Val(Val(config).strategy_name)))]
  ELSE IF IsNone(MapGet(map, default_strategy_name))
    THEN [ok |-> FALSE,
          exc |-> RateLimitException("Default strategy not found",
                                     default_strategy_name)]
    ELSE [ok |-> TRUE, strategy |-> Val(MapGet(map, default_strategy_name))]

\* RateLimitUseCase._determine_strategy
_determine_strategy(map, config, default_strategy_name) ==
  IF ~IsNone(config) /\ ~IsNone(Val(config).strategy)
    THEN [ok |-> TRUE, strategy |-> Val(Val(config).strategy)]
  ELSE IF ~IsNone(config) /\ ~IsNone(Val(config).strategy_name)
    THEN LET name == Val(Val(config).strategy_name) IN
         IF IsNone(MapGet(map, name))
           THEN [ok |-> FALSE,
                 exc |-> RateLimitException("Unknown strategy name", name)]
           ELSE [ok |-> TRUE, strategy |-> Val(MapGet(map, name))]
  ELSE IF IsNone(MapGet(map, default_strategy_name))
    THEN [ok |-> FALSE,
          exc |-> RateLimitException("Default strategy not found",
                                     default_strategy_name)]
    ELSE [ok |-> TRUE, strategy |-> Val(MapGet(map, default_strategy_name))]

\* RateLimitUseCase._determine_key_strategy
_determine_key_strategy(config) ==
  IF ~IsNone(config) /\ ~IsNone(Val(config).key_extraction)
    THEN Val(Val(config).key_extraction)
    ELSE IpKeyStrategy

\* RateLimitUseCase._get_error_message: "if config and
\* config.custom_error_message" takes the empty message for no message
_get_error_message(config, res) ==
  IF /\ ~IsNone(config) /\ ~IsNone(Val(config).custom_error_message)
     /\ Val(Val(config).custom_error_message) # ""
    THEN <<Val(Val(config).custom_error_message)>>
    ELSE <<"Rate limit exceeded. Maximum", res.limit, "requests per", res.ttl,
           "seconds. Please try again in", Val(res.retry_after), "seconds.">>

\* check_rate_limit: allowed = current_count <= strategy.limit
\* (CheckAllowedExclusive: the faulty comparison <)
CheckAllowedExclusive(current_count, limit) == current_count < limit
CheckAllowed(current_count, limit) == current_count <= limit

\* get_current_usage: allowed = current_count < strategy.limit
\* (UsageAllowedInclusive: the faulty comparison <=)
UsageAllowedInclusive(current_count, limit) == current_count <= limit
UsageAllowed(current_count, limit) == current_count < limit

\* check_rate_limit's handlers: the exceeded signal is re-raised, every other
\* exception is logged and replaced by a RateLimitException of status 500
\* (CheckRaisesUnmodified: a handler that re-raises what it caught)
CheckRaisesUnmodified(e) == e
CheckRaises(e) ==
  IF e.kind = "exceeded" THEN e
  ELSE RateLimitException("Rate limit check failed", "")
CheckLogs(e) == IF e.kind = "exceeded" THEN <<>> ELSE <<e>>

\* get_current_usage's handler: every exception is logged and replaced
\* (UsageRaisesUnmodified: a handler that re-raises what it caught)
UsageRaisesUnmodified(e) == e
UsageRaises(e) == RateLimitException("Usage check failed", "")

\* the bypass step of check_rate_limit: "true" when the request is exempted; a
\* predicate that raises is logged and exempts nothing
\* (BypassOutcomeExempting: a predicate that raises exempts the request)
BypassFailed == [kind |-> "warning", type |-> "BypassFailed"]
BypassOutcomeExempting(config, req) ==
  IF IsNone(config) \/ IsNone(Val(config).bypass_function) THEN "not_set"
  ELSE IF BypassCall(Val(Val(config).bypass_function), req).raised THEN "true"
  ELSE IF BypassCall(Val(Val(config).bypass_function), req).value THEN "true"
  ELSE "false"
BypassOutcome(config, req) ==
  IF IsNone(config) \/ IsNone(Val(config).bypass_function) THEN "not_set"
  ELSE IF BypassCall(Val(Val(config).bypass_function), req).raised THEN "raised"
  ELSE IF BypassCall(Val(Val(config).bypass_function), req).value THEN "true"
  ELSE "false"
BypassLogs(config, req) ==
  IF BypassOutcome(config, req) = "raised" THEN <<BypassFailed>> ELSE <<>>

\* the result of a bypassed check
\* (BypassResultCounted: the bypassed request is reported as counted)
BypassResultCounted(k, s) == RateLimitResult(TRUE, k, 1, s, None)
BypassResult(k, s) == RateLimitResult(TRUE, k, 0, s, None)

\* the store call of check_rate_limit: one increment_counter(key, strategy.ttl)
\* (CheckStoreCallTwice: the increment is issued twice)
CheckStoreCallTwice(st, k, s) ==
  increment_counter(increment_counter(st, k, s.ttl), k, s.ttl)
\* (CheckStoreCallRefunding: a request that will be denied is not counted)
CheckStoreCallRefunding(st, k, s) ==
  IF st[k].count >= s.limit THEN st ELSE increment_counter(st, k, s.ttl)
\* (CheckStoreCallRefreshing: the increment is followed by a new expiry)
CheckStoreCallRefreshing(st, k, s) ==
  [increment_counter(st, k, s.ttl) EXCEPT ![k].ttl = s.ttl]
\* (CheckStoreCallPerStrategy: checks under the strategy named short count on
\* a counter of their own)
CheckStoreCallPerStrategy(st, k, s) ==
  increment_counter(st, IF s.name = "short" THEN <<"HEADER", k[2]>> ELSE k,
                    s.ttl)
CheckStoreCall(st, k, s) == increment_counter(st, k, s.ttl)

\* the store call of get_current_usage: one get_current_count(key)
\* (UsageStoreCallCounting: the read also increments)
UsageStoreCallCounting(st, k) ==
  [count |-> get_current_count(st, k), store |-> increment_counter(st, k, 1)]
UsageStoreCall(st, k) == [count |-> get_current_count(st, k), store |-> st]

\* what check_rate_limit makes of the count the store returned
CheckOutcome(config, s, k, current_count) ==
  LET allowed == CheckAllowed(current_count, s.limit)
      retry_after == IF allowed THEN None ELSE Some(s.ttl)
      res == RateLimitResult(allowed, k, current_count, s, retry_after)
  IN IF allowed THEN res
     ELSE CheckRaises(RateLimitHTTPException(_get_error_message(config, res),
                                             retry_after, s, to_headers(res)))

\* what get_current_usage makes of the count the store returned
UsageOutcome(s, k, current_count) ==
  LET allowed == UsageAllowed(current_count, s.limit)
  IN RateLimitResult(allowed, k, current_count, s,
                     IF allowed THEN None ELSE Some(s.ttl))

\* the arguments of a call of check_rate_limit or get_current_usage
Call(req, config, dsn) ==
  [request |-> req, config |-> config, default_strategy_name |-> dsn]

\* dispatch's call: check_rate_limit(request, route_config, self.default_strategy_name)
MwCheckCall(c) ==
  Call(Val(mw_call[c]).request, Val(mw_call[c]).route_config,
       mw_default_strategy_name)

Finish(c, r, logs) ==
  /\ pc' = [pc EXCEPT ![c] = "done"]
  /\ result' = [result EXCEPT ![c] = r]
  /\ logged' = [logged EXCEPT ![c] = logged[c] \o logs]

\* check_rate_limit when extract_key raised: the bypass predicate, which comes
\* after the extraction, is not called, and the exception goes to the handlers
\* (ExtractionFailedAfterBypass: the bypass predicate is called first)
ExtractionFailedAfterBypass(config, req, e) ==
  [raises |-> CheckRaises(e), logs |-> BypassLogs(config, req) \o CheckLogs(e)]
ExtractionFailed(config, req, e) ==
  [raises |-> CheckRaises(e), logs |-> CheckLogs(e)]

\* check_rate_limit up to the store call: resolve the strategy, extract the
\* key, evaluate the bypass predicate
check_start(c, a) ==
  /\ pc[c] = "idle"
  /\ mw_stage[c] = "none" \/ (mw_stage[c] = "check" /\ a = MwCheckCall(c))
  /\ op' = [op EXCEPT ![c] = "check"]
  /\ args' = [args EXCEPT ![c] = Some(a)]
  /\ LET req == a.request
         config == a.config
         s == _determine_strategy(strategy_map, config, a.default_strategy_name)
         k == extract_key(req, _determine_key_strategy(config))
     IN IF ~s.ok
          THEN /\ Finish(c, CheckRaises(s.exc), CheckLogs(s.exc))
               /\ UNCHANGED local
        ELSE IF ~k.ok
          THEN /\ Finish(c, ExtractionFailed(config, req, k.exc).raises,
                         ExtractionFailed(config, req, k.exc).logs)
               /\ UNCHANGED local
        ELSE IF BypassOutcome(config, req) = "true"
          THEN /\ Finish(c, BypassResult(k.key, s.strategy), <<>>)
               /\ local' = [local EXCEPT ![c] =
                              Some([strategy |-> s.strategy, key |-> k.key])]
        ELSE /\ pc' = [pc EXCEPT ![c] = "store"]
             /\ logged' = [logged EXCEPT ![c] = BypassLogs(config, req)]
             /\ local' = [local EXCEPT ![c] =
                            Some([strategy |-> s.strategy, key |-> k.key])]
             /\ UNCHANGED result
  /\ UNCHANGED << strategy_map, default_strategies, store, store_calls,
                  issued, window, verdicts >>
  /\ UNCHANGED << mwVars, regVars >>

\* check_rate_limit from the store call on: one increment_counter, which may
\* fail, then the decision
check_increment(c, fails) ==
  /\ pc[c] = "store" /\ op[c] = "check"
  /\ LET s == Val(local[c]).strategy
         k == Val(local[c]).key
     IN /\ store_calls' = [store_calls EXCEPT ![c] =
              Append(@, [op |-> "increment_counter", key |-> k, ttl |-> s.ttl,
                         nth |-> IF fails THEN 0 ELSE issued[k] + 1])]
        /\ IF fails
             THEN /\ Finish(c, CheckRaises(StoreError), CheckLogs(StoreError))
                  /\ UNCHANGED << store, issued, window, verdicts >>
             ELSE /\ store[k].count < MaxCount
                  /\ store' = CheckStoreCall(store, k, s)
                  /\ issued' = [issued EXCEPT ![k] = @ + 1]
                  /\ window' = [window EXCEPT ![k] =
                                  IF store[k].count = 0
                                    THEN [ttl |-> s.ttl, age |-> 0] ELSE @]
                  /\ Finish(c, CheckOutcome(Val(args[c]).config, s, k,
                                             get_current_count(store', k)),
                            <<>>)
                  /\ verdicts' = [verdicts EXCEPT ![k] = Verdict(@, result'[c])]
  /\ UNCHANGED << strategy_map, default_strategies, op, args, local >>
  /\ UNCHANGED << mwVars, regVars >>

\* get_current_usage up to the store call
usage_start(c, a) ==
  /\ pc[c] = "idle" /\ mw_stage[c] = "none"
  /\ op' = [op EXCEPT ![c] = "usage"]
  /\ args' = [args EXCEPT ![c] = Some(a)]
  /\ LET req == a.request
         config == a.config
         s == _determine_strategy(strategy_map, config, a.default_strategy_name)
         k == extract_key(req, _determine_key_strategy(config))
     IN IF ~s.ok
          THEN /\ Finish(c, UsageRaises(s.exc), <<s.exc>>)
               /\ UNCHANGED local
        ELSE IF ~k.ok
          THEN /\ Finish(c, UsageRaises(k.exc), <<k.exc>>)
               /\ UNCHANGED local
        ELSE /\ pc' = [pc EXCEPT ![c] = "store"]
             /\ local' = [local EXCEPT ![c] =
                            Some([strategy |-> s.strategy, key |-> k.key])]
             /\ UNCHANGED << result, logged >>
  /\ UNCHANGED << strategy_map, default_strategies, store, store_calls,
                  issued, window, verdicts >>
  /\ UNCHANGED << mwVars, regVars >>

\* get_current_usage from the store call on: one get_current_count, which may fail
usage_read(c, fails) ==
  /\ pc[c] = "store" /\ op[c] = "usage"
  /\ LET s == Val(local[c]).strategy
         k == Val(local[c]).key
     IN /\ store_calls' = [store_calls EXCEPT ![c] =
              Append(@, [op |-> "get_current_count", key |-> k, ttl |-> 0,
                         nth |-> 0])]
        /\ IF fails
             THEN /\ Finish(c, UsageRaises(StoreError), <<StoreError>>)
                  /\ UNCHANGED store
             ELSE /\ store' = UsageStoreCall(store, k).store
                  /\ Finish(c, UsageOutcome(s, k, UsageStoreCall(store, k).count),
                            <<>>)
  /\ UNCHANGED << strategy_map, default_strategies, op, args, local,
                  issued, window, verdicts >>
  /\ UNCHANGED << mwVars, regVars >>

\* the caller has its result and may call again
Return(c) ==
  /\ pc[c] = "done" /\ mw_stage[c] = "none"
  /\ pc' = [pc EXCEPT ![c] = "idle"]
  /\ op' = [op EXCEPT ![c] = "none"]
  /\ args' = [args EXCEPT ![c] = None]
  /\ local' = [local EXCEPT ![c] = None]
  /\ result' = [result EXCEPT ![c] = NoResult]
  /\ logged' = [logged EXCEPT ![c] = <<>>]
  /\ store_calls' = [store_calls EXCEPT ![c] = <<>>]
  /\ UNCHANGED << strategy_map, default_strategies, store,
                  issued, window, verdicts >>
  /\ UNCHANGED << mwVars, regVars >>

\* update_strategies' map: a new dictionary built whole from the list, which
\* one assignment then binds to _strategy_map
\* (NewStrategyMapInPlace: the entries are written into the dictionary in use)
NewStrategyMapInPlace(map, strategies) ==
  [n \in DOMAIN map \cup DOMAIN StrategyMapOf(strategies) |->
     IF n \in DOMAIN StrategyMapOf(strategies)
       THEN StrategyMapOf(strategies)[n] ELSE map[n]]
\* (NewStrategyMapOrDefaults: an empty list gives the built-in strategies, as
\* it does in the constructor)
NewStrategyMapOrDefaults(map, strategies) ==
  StrategyMapOf(InitStrategies(Some(strategies)))
NewStrategyMap(map, strategies) == StrategyMapOf(strategies)

\* RateLimitUseCase.update_strategies
update_strategies(strategies) ==
  /\ default_strategies' = strategies
  /\ strategy_map' = NewStrategyMap(strategy_map, strategies)
  /\ strategy_map' # strategy_map
  /\ installed' = Installed("update_strategies", Some(strategies), TRUE)
  /\ UNCHANGED << store, pc, op, args, local, result, logged, store_calls,
                  issued, window, verdicts, returned >>
  /\ UNCHANGED mwVars

\* update_strategies statement by statement, as callers in other threads see
\* it: first default_strategies is bound to the list, then _strategy_map to the
\* new dictionary
update_strategies_list(strategies) ==
  /\ strategy_map = StrategyMapOf(default_strategies)
  /\ strategies # default_strategies
  /\ default_strategies' = strategies
  /\ installed' = Installed("update_strategies", Some(strategies), TRUE)
  /\ UNCHANGED << strategy_map, store, pc, op, args, local, result, logged,
                  store_calls, issued, window, verdicts, returned >>
  /\ UNCHANGED mwVars
update_strategies_map ==
  /\ strategy_map # StrategyMapOf(default_strategies)
  /\ strategy_map' = NewStrategyMap(strategy_map, default_strategies)
  /\ strategy_map' # strategy_map
  /\ UNCHANGED << default_strategies, store, pc, op, args, local, result,
                  logged, store_calls, issued, window, verdicts >>
  /\ UNCHANGED << mwVars, regVars >>

\* RateLimitUseCase.get_strategy
get_strategy(name) ==
  /\ returned' = [op |-> "get_strategy", arg |-> name,
                  strategy |-> MapGet(strategy_map, name)]
  /\ UNCHANGED << strategy_map, default_strategies, store, pc, op, args, local,
                  result, logged, store_calls,
                  issued, window, verdicts, installed >>
  /\ UNCHANGED mwVars

\* what list_strategies returns: a copy of the dictionary, a new object
\* (ListStrategiesNoCopy: the dictionary of the engine itself)
ListStrategiesNoCopy(map) ==
  [op |-> "list_strategies", object |-> "_strategy_map", value |-> map,
   written |-> FALSE]
ListStrategiesReturns(map) ==
  [op |-> "list_strategies", object |-> "copy", value |-> map,
   written |-> FALSE]

\* RateLimitUseCase.list_strategies
list_strategies ==
  /\ returned' = ListStrategiesReturns(strategy_map)
  /\ UNCHANGED << strategy_map, default_strategies, store, pc, op, args, local,
                  result, logged, store_calls,
                  issued, window, verdicts, installed >>
  /\ UNCHANGED mwVars

\* what a caller does to a dictionary it holds: d[n] = s and del d[n]
DictSet(d, n, s) == [x \in DOMAIN d \cup {n} |-> IF x = n THEN s ELSE d[x]]
DictDel(d, n) == [x \in DOMAIN d \ {n} |-> d[x]]

\* the caller writes into the dictionary list_strategies returned to it; a
\* write to an object is seen through every reference to that object
caller_writes_dict(d) ==
  /\ returned.op = "list_strategies"
  /\ d # returned.value
  /\ returned' = [returned EXCEPT !.value = d, !.written = TRUE]
  /\ strategy_map' = IF returned.object = "_strategy_map" THEN d ELSE strategy_map
  /\ UNCHANGED << default_strategies, store, pc, op, args, local, result,
                  logged, store_calls, issued, window, verdicts, installed >>
  /\ UNCHANGED mwVars

\* the caller changes the list it passed to the engine, which the engine
\* keeps as default_strategies; _strategy_map is another object
caller_writes_list(strategies) ==
  /\ installed.shared
  /\ strategies # default_strategies
  /\ default_strategies' = strategies
  /\ UNCHANGED << strategy_map, store, pc, op, args, local, result, logged,
                  store_calls, issued, window, verdicts, installed, returned >>
  /\ UNCHANGED mwVars

\* a second passes in the store
Tick ==
  /\ \E k \in Keys : store[k].count > 0
  /\ store' = Expire(store)
  /\ issued' = [k \in Keys |-> IF store'[k].count = 0 THEN 0 ELSE issued[k]]
  /\ window' = [k \in Keys |->
                  IF store'[k].count = 0 THEN NoWindow
                  ELSE [window[k] EXCEPT !.age = @ + 1]]
  /\ verdicts' = [k \in Keys |->
                    IF store'[k].count = 0 THEN NoVerdicts ELSE verdicts[k]]
  /\ UNCHANGED << strategy_map, default_strategies, pc, op, args, local,
                  result, logged, store_calls >>
  /\ UNCHANGED << mwVars, regVars >>

\* ------------------------------------------------------------- middleware
engineVars == << strategy_map, default_strategies, store, pc, op, args, local,
                 result, logged, store_calls,
                 issued, window, verdicts, regVars >>

\* a path is the sequence of the pieces of its text, so that startswith is
\* being a prefix: "/health" is <<"/health">>, "/healthz" is <<"/health", "z">>
StartsWith(path, prefix) ==
  /\ Len(prefix) <= Len(path)
  /\ SubSeq(path, 1, Len(prefix)) = prefix

\* the excluded_paths the middleware is constructed with
ExcludedPaths == << <<"/health">>, <<"/docs">> >>

\* (IsPathExcludedExact: only the excluded paths themselves are excluded)
IsPathExcludedExact(path) ==
  \E i \in DOMAIN ExcludedPaths : path = ExcludedPaths[i]
\* RateLimitMiddleware._is_path_excluded
_is_path_excluded(path) ==
  \E i \in DOMAIN ExcludedPaths : StartsWith(path, ExcludedPaths[i])

\* the responses of dispatch
HandlerResponse(headers) == [kind |-> "handler", headers |-> headers]
JSONResponse(status_code, content, headers) ==
  [kind |-> "rejected", status_code |-> status_code, content |-> content,
   headers |-> headers]
Raised(exc) == [kind |-> "raised", exc |-> exc]
HandlerError == [kind |-> "error", type |-> "HandlerError"]

\* dispatch up to the rate limit check: the skips for a disabled middleware, an
\* excluded path and a route whose config is disabled
dispatch_start(c, req, route_config) ==
  /\ pc[c] = "idle" /\ mw_stage[c] = "none"
  /\ mw_call' = [mw_call EXCEPT ![c] =
                   Some([request |-> req, route_config |-> route_config])]
  /\ IF ~mw_enabled \/ _is_path_excluded(req.path)
       THEN /\ mw_stage' = [mw_stage EXCEPT ![c] = "call_next"]
            /\ in_try' = [in_try EXCEPT ![c] = "outside"]
     ELSE IF ~IsNone(route_config) /\ ~Val(route_config).enabled
       THEN /\ mw_stage' = [mw_stage EXCEPT ![c] = "call_next"]
            /\ in_try' = [in_try EXCEPT ![c] = "try"]
     ELSE /\ mw_stage' = [mw_stage EXCEPT ![c] = "check"]
          /\ UNCHANGED in_try
  /\ UNCHANGED << engineVars, mw_enabled, mw_default_strategy_name, forwarded,
                  response >>

\* what dispatch does with the outcome of check_rate_limit: a result goes on
\* to the handler, the exceeded signal is answered with its JSON response, and
\* every other exception is printed and the request goes on to the handler
\* (OnCheckOutcomeFailClosed: every other exception leaves dispatch)
OnCheckOutcomeFailClosed(r) ==
  IF r.kind = "result" THEN "try_checked"
  ELSE IF r.kind = "exceeded" THEN "reject"
  ELSE "raise"
\* (OnCheckOutcomeExceededAsError: the exceeded signal is handled as every
\* other exception is)
OnCheckOutcomeExceededAsError(r) ==
  IF r.kind = "result" THEN "try_checked" ELSE "except"
OnCheckOutcome(r) ==
  IF r.kind = "result" THEN "try_checked"
  ELSE IF r.kind = "exceeded" THEN "reject"
  ELSE "except"

dispatch_after_check(c) ==
  /\ mw_stage[c] = "check" /\ pc[c] = "done"
  /\ IF OnCheckOutcome(result[c]) = "reject"
       THEN /\ mw_stage' = [mw_stage EXCEPT ![c] = "done"]
            /\ response' = [response EXCEPT ![c] =
                  JSONResponse(result[c].status_code, result[c].detail,
                               result[c].headers)]
            /\ UNCHANGED in_try
     ELSE IF OnCheckOutcome(result[c]) \in {"try_checked", "except"}
       THEN /\ mw_stage' = [mw_stage EXCEPT ![c] = "call_next"]
            /\ in_try' = [in_try EXCEPT ![c] = OnCheckOutcome(result[c])]
            /\ UNCHANGED response
     ELSE /\ mw_stage' = [mw_stage EXCEPT ![c] = "done"]
          /\ response' = [response EXCEPT ![c] = Raised(result[c])]
          /\ UNCHANGED in_try
  /\ UNCHANGED << engineVars, mw_enabled, mw_default_strategy_name, mw_call,
                  forwarded >>

\* await call_next(request): the handler answers or raises. Raised inside
\* dispatch's try, the exception is printed and call_next is awaited again
call_next(c, raises) ==
  /\ mw_stage[c] = "call_next"
  /\ forwarded' = [forwarded EXCEPT ![c] = @ + 1]
  /\ IF raises /\ in_try[c] \in {"try", "try_checked"}
       THEN /\ in_try' = [in_try EXCEPT ![c] = "except"]
            /\ UNCHANGED << mw_stage, response >>
     ELSE /\ mw_stage' = [mw_stage EXCEPT ![c] = "done"]
          /\ response' = [response EXCEPT ![c] =
                IF raises THEN Raised(HandlerError)
                ELSE IF in_try[c] = "try_checked"
                  THEN HandlerResponse(Some(to_headers(result[c])))
                  ELSE HandlerResponse(None)]
          /\ UNCHANGED in_try
  /\ UNCHANGED << engineVars, mw_enabled, mw_default_strategy_name, mw_call >>

\* the request is answered: the caller may send the next one
dispatch_return(c) ==
  /\ mw_stage[c] = "done"
  /\ mw_stage' = [mw_stage EXCEPT ![c] = "none"]
  /\ mw_call' = [mw_call EXCEPT ![c] = None]
  /\ in_try' = [in_try EXCEPT ![c] = "none"]
  /\ forwarded' = [forwarded EXCEPT ![c] = 0]
  /\ response' = [response EXCEPT ![c] = NoResult]
  /\ pc' = [pc EXCEPT ![c] = "idle"]
  /\ op' = [op EXCEPT ![c] = "none"]
  /\ args' = [args EXCEPT ![c] = None]
  /\ local' = [local EXCEPT ![c] = None]
  /\ result' = [result EXCEPT ![c] = NoResult]
  /\ logged' = [logged EXCEPT ![c] = <<>>]
  /\ store_calls' = [store_calls EXCEPT ![c] = <<>>]
  /\ UNCHANGED << strategy_map, default_strategies, store,
                  issued, window, verdicts, mw_enabled,
                  mw_default_strategy_name, regVars >>

\* RateLimitMiddleware.disable and enable
disable ==
  /\ mw_enabled
  /\ mw_enabled' = FALSE
  /\ UNCHANGED << engineVars, mw_default_strategy_name, mw_stage, mw_call,
                  in_try, forwarded, response >>
enable ==
  /\ ~mw_enabled
  /\ mw_enabled' = TRUE
  /\ UNCHANGED << engineVars, mw_default_strategy_name, mw_stage, mw_call,
                  in_try, forwarded, response >>

\* RateLimitMiddleware.__init__ over the engine: a truthy default_strategies
\* goes to update_strategies, a None or empty one leaves the engine as it is
middleware_init(strategies, default_strategy_name, enabled) ==
  /\ \A c \in Callers : mw_stage[c] = "none"
  /\ mw_default_strategy_name' = default_strategy_name
  /\ mw_enabled' = enabled
  /\ IF IsNone(strategies) \/ Val(strategies) = <<>>
       THEN /\ installed' = Installed("middleware.__init__", strategies,
                                      installed.shared)
            /\ UNCHANGED << default_strategies, strategy_map >>
       ELSE /\ installed' = Installed("middleware.__init__", strategies, TRUE)
            /\ default_strategies' = Val(strategies)
            /\ strategy_map' = NewStrategyMap(strategy_map, Val(strategies))
  /\ installed' # installed
  /\ UNCHANGED << store, pc, op, args, local, result, logged, store_calls,
                  issued, window, verdicts, returned, mw_stage, mw_call,
                  in_try, forwarded, response >>

\* RateLimitMiddleware.set_default_strategy
set_default_strategy(strategy_name) ==
  /\ strategy_name # mw_default_strategy_name
  /\ mw_default_strategy_name' = strategy_name
  /\ UNCHANGED << engineVars, mw_enabled, mw_stage, mw_call, in_try,
                  forwarded, response >>

\* ------------------------------------------------------------ the inputs
PlainRequest == Request("a", None, <<"/api">>)
KeyedRequest == Request("a", Some("a"), <<"/api">>)

Configs(S, N, K, B, M) ==
  {Some(RateLimitConfig(s, n, k, b, m, TRUE)) :
     s \in S, n \in N, k \in K, b \in B, m \in M}
OptStrategies == {None} \cup {Some(s) : s \in CustomStrategies}
OptNames == {None, Some("short"), Some("long")}
OptKeys == {None, Some(HeaderKeyStrategy)}
OptBypass == {None} \cup {Some(b) : b \in BypassFunctions}
SmallStrategy == Some(RateLimitStrategy("short", 1, 2))

\* every way of naming the strategy, with the default IP key
StrategyCalls ==
  {Call(PlainRequest, config, dsn) :
     config \in {None} \cup Configs(OptStrategies, OptNames, {None}, {None}, {None}),
     dsn \in {"medium", "long"}}
\* every key extraction and bypass predicate
KeyCalls ==
  {Call(req, config, "medium") :
     req \in {PlainRequest, KeyedRequest},
     config \in Configs({None, SmallStrategy}, {None}, OptKeys, OptBypass, {None})}
\* a custom error message
MessageCalls ==
  {Call(PlainRequest, config, "medium") :
     config \in Configs({None, SmallStrategy}, {None}, {None}, {None},
                        {Some("custom"), Some("")})}

CheckCalls == StrategyCalls \cup KeyCalls \cup MessageCalls
UsageCalls ==
  StrategyCalls \cup
  {Call(req, config, "medium") :
     req \in {PlainRequest, KeyedRequest},
     config \in Configs({None}, {None}, OptKeys, {None}, {None})}

\* after RateLimitUseCase.__init__ with default_strategies, over an empty store
\* and before any request
Constructed(strategies) ==
  /\ default_strategies = InitStrategies(strategies)
  /\ strategy_map = StrategyMapOf(InitStrategies(strategies))
  /\ store = [k \in Keys |-> NoEntry]
  /\ pc = [c \in Callers |-> "idle"]
  /\ op = [c \in Callers |-> "none"]
  /\ args = [c \in Callers |-> None]
  /\ local = [c \in Callers |-> None]
  /\ result = [c \in Callers |-> NoResult]
  /\ logged = [c \in Callers |-> <<>>]
  /\ store_calls = [c \in Callers |-> <<>>]
  /\ issued = [k \in Keys |-> 0]
  /\ window = [k \in Keys |-> NoWindow]
  /\ verdicts = [k \in Keys |-> NoVerdicts]
  /\ mw_enabled = TRUE
  /\ mw_default_strategy_name = "medium"
  /\ mw_stage = [c \in Callers |-> "none"]
  /\ mw_call = [c \in Callers |-> None]
  /\ in_try = [c \in Callers |-> "none"]
  /\ forwarded = [c \in Callers |-> 0]
  /\ response = [c \in Callers |-> NoResult]
  /\ installed = Installed("__init__", strategies,
                         ~IsNone(strategies) /\ Val(strategies) # <<>>)
  /\ returned = NothingReturned

\* after construction with the caller-supplied list ListA
Init == Constructed(Some(ListA))

\* one caller at a time, every kind of config
Next ==
  \/ \E a \in CheckCalls : check_start(1, a)
  \/ \E fails \in BOOLEAN : check_increment(1, fails)
  \/ \E a \in UsageCalls : usage_start(1, a)
  \/ \E fails \in BOOLEAN : usage_read(1, fails)
  \/ Return(1)
  \/ \E strategies \in StrategyLists : update_strategies(strategies)
  \/ Tick

Spec == Init /\ [][Next]_vars

\* callers in parallel, each call a check or a usage read of the IP key
ConcCalls ==
  {Call(PlainRequest, config, "medium") :
     config \in {None} \cup Configs({SmallStrategy}, {None}, {None}, {None}, {None})}

NextConc ==
  \/ \E c \in Callers, a \in ConcCalls : check_start(c, a)
  \/ \E c \in Callers, fails \in BOOLEAN : check_increment(c, fails)
  \/ \E c \in Callers : usage_start(c, Call(PlainRequest, None, "medium"))
  \/ \E c \in Callers, fails \in BOOLEAN : usage_read(c, fails)
  \/ \E c \in Callers : Return(c)
  \/ Tick

SpecConc == Init /\ [][NextConc]_vars

\* callers in parallel with a thread that updates the strategies; each call
\* names its strategy by the default or by config.strategy_name
SwapCalls ==
  {Call(PlainRequest, config, "medium") :
     config \in {None} \cup Configs({None}, {Some("long")}, {None}, {None}, {None})}

NextSwap ==
  \/ \E c \in Callers, a \in SwapCalls : check_start(c, a)
  \/ \E c \in Callers, fails \in BOOLEAN : check_increment(c, fails)
  \/ \E c \in Callers : usage_start(c, Call(PlainRequest, None, "medium"))
  \/ \E c \in Callers, fails \in BOOLEAN : usage_read(c, fails)
  \/ \E c \in Callers : Return(c)
  \/ \E strategies \in StrategyLists : update_strategies_list(strategies)
  \/ update_strategies_map

SpecSwap == Init /\ [][NextSwap]_vars

\* requests through the middleware, one at a time
HealthRequest == Request("a", None, <<"/health", "z">>)
MwRequests == {PlainRequest, HealthRequest}
MwConfigs ==
  {None}
  \cup Configs({None}, {None, Some("long")}, OptKeys, {None, Some("raises")}, {None})
  \cup Configs({SmallStrategy}, {None}, {None}, {None},
              {None, Some("custom"), Some("")})
  \cup {Some(RateLimitConfig(None, None, None, None, None, FALSE))}

NextMw ==
  \/ \E req \in MwRequests, route_config \in MwConfigs :
        dispatch_start(1, req, route_config)
  \/ mw_stage[1] = "check" /\ check_start(1, MwCheckCall(1))
  \/ \E fails \in BOOLEAN : check_increment(1, fails)
  \/ dispatch_after_check(1)
  \/ \E raises \in BOOLEAN : call_next(1, raises)
  \/ dispatch_return(1)
  \/ disable
  \/ enable
  \/ \E n \in {"medium", "long"} : set_default_strategy(n)
  \/ Tick

SpecMw == Init /\ [][NextMw]_vars

\* the example application: the engine is constructed without a list, the
\* middleware is added with custom_strategies and the default name MEDIUM, and
\* the status endpoint is a route behind the middleware
ExampleShortLimit == 3
ExampleShortTtl == 60
ExampleMediumLimit == 10
ExampleMediumTtl == 300
ExampleLongLimit == 50
ExampleLongTtl == 3600
custom_strategies ==
  << RateLimitStrategy("short", ExampleShortLimit, ExampleShortTtl),
     RateLimitStrategy("medium", ExampleMediumLimit, ExampleMediumTtl),
     RateLimitStrategy("long", ExampleLongLimit, ExampleLongTtl) >>

StatusPath == <<"/api", "/rate-limit-status">>
StatusRequest == Request("a", None, StatusPath)
StatusResponse(body, headers) ==
  [kind |-> "handler", headers |-> headers, body |-> body]

\* what the rate_limit_status handler answers: the result of
\* get_current_usage(request), or a 500 response of its own for whatever
\* get_current_usage raised
StatusBody(st, map, req, fails) ==
  LET s == _determine_strategy(map, None, "medium")
      k == extract_key(req, _determine_key_strategy(None))
  IN IF ~s.ok THEN UsageRaises(s.exc)
     ELSE IF ~k.ok THEN UsageRaises(k.exc)
     ELSE IF fails THEN UsageRaises(StoreError)
     ELSE UsageOutcome(s.strategy, k.key, UsageStoreCall(st, k.key).count)

\* await call_next(request) for a request to /api/rate-limit-status: the
\* handler, which does not raise, then the headers dispatch adds
rate_limit_status(c, fails) ==
  /\ mw_stage[c] = "call_next"
  /\ Val(mw_call[c]).request.path = StatusPath
  /\ forwarded' = [forwarded EXCEPT ![c] = @ + 1]
  /\ mw_stage' = [mw_stage EXCEPT ![c] = "done"]
  /\ LET req == Val(mw_call[c]).request
         k == extract_key(req, _determine_key_strategy(None))
         body == StatusBody(store, strategy_map, req, fails)
     IN /\ response' = [response EXCEPT ![c] =
              StatusResponse(body, IF in_try[c] = "try_checked"
                                     THEN Some(to_headers(result[c])) ELSE None)]
        /\ IF _determine_strategy(strategy_map, None, "medium").ok /\ k.ok
             THEN /\ store_calls' = [store_calls EXCEPT ![c] =
                         Append(@, [op |-> "get_current_count", key |-> k.key,
                                    ttl |-> 0, nth |-> 0])]
                  /\ store' = IF fails THEN store
                              ELSE UsageStoreCall(store, k.key).store
             ELSE UNCHANGED << store, store_calls >>
  /\ UNCHANGED << strategy_map, default_strategies, pc, op, args, local, result,
                  logged, issued, window, verdicts, regVars, mw_enabled,
                  mw_default_strategy_name, mw_call, in_try >>

ExampleRequests == {StatusRequest, PlainRequest, HealthRequest}

NextExample ==
  \/ /\ installed.op = "__init__"
     /\ middleware_init(Some(custom_strategies), "medium", TRUE)
  \/ /\ installed.op = "middleware.__init__"
     /\ \E req \in ExampleRequests : dispatch_start(1, req, None)
  \/ mw_stage[1] = "check" /\ check_start(1, MwCheckCall(1))
  \/ \E fails \in BOOLEAN : check_increment(1, fails)
  \/ dispatch_after_check(1)
  \/ /\ mw_stage[1] = "call_next"
     /\ Val(mw_call[1]).request.path # StatusPath
     /\ \E raises \in BOOLEAN : call_next(1, raises)
  \/ \E fails \in BOOLEAN : rate_limit_status(1, fails)
  \/ dispatch_return(1)
  \/ Tick

SpecExample == Constructed(None) /\ [][NextExample]_vars

\* the registry: construction with every kind of list, updates, and calls
\* that name their strategy
SuppliedLists == {None} \cup {Some(strategies) : strategies \in StrategyLists}
RegCalls ==
  {Call(PlainRequest, config, "medium") :
     config \in {None} \cup Configs({None}, {Some("short"), Some("long")},
                                      {None}, {None}, {None})}

InitReg == \E strategies \in SuppliedLists : Constructed(strategies)

NextReg ==
  \/ \E a \in RegCalls : check_start(1, a)
  \/ \E fails \in BOOLEAN : check_increment(1, fails)
  \/ \E a \in RegCalls : usage_start(1, a)
  \/ \E fails \in BOOLEAN : usage_read(1, fails)
  \/ Return(1)
  \/ \E strategies \in StrategyLists : update_strategies(strategies)
  \/ list_strategies
  \/ \E strategies \in SuppliedLists : middleware_init(strategies, "medium", TRUE)

SpecReg == InitReg /\ [][NextReg]_vars

\* the accessors, and what the caller does to the objects it shares with the
\* engine: the dictionary list_strategies returned, the list it passed
CallerDicts ==
  IF returned.op # "list_strategies" THEN {}
  ELSE {DictSet(returned.value, "long", ListB[1])}
       \cup {DictDel(returned.value, n) : n \in DOMAIN returned.value}

NextCopy ==
  \/ \E a \in RegCalls : usage_start(1, a)
  \/ \E fails \in BOOLEAN : usage_read(1, fails)
  \/ Return(1)
  \/ \E strategies \in StrategyLists : update_strategies(strategies)
  \/ \E name \in StrategyNames : get_strategy(name)
  \/ list_strategies
  \/ \E d \in CallerDicts : caller_writes_dict(d)
  \/ \E strategies \in StrategyLists : caller_writes_list(strategies)

SpecCopy == Init /\ [][NextCopy]_vars

\* one quota: the engine is constructed with a list whose MEDIUM strategy has
\* any limit, and the callers, in parallel, check the same request under it
QuotaLists == {<< RateLimitStrategy("medium", l, 2) >> : l \in 1..MaxLimit}
QuotaCall == Call(PlainRequest, None, "medium")

InitQuota == \E strategies \in QuotaLists : Constructed(Some(strategies))

NextQuota ==
  \/ \E c \in Callers : check_start(c, QuotaCall)
  \/ \E c \in Callers, fails \in BOOLEAN : check_increment(c, fails)
  \/ \E c \in Callers : Return(c)
  \/ Tick

SpecQuota == InitQuota /\ [][NextQuota]_vars

\* -------------------------------------------------------------- properties
Cfg(c) == Val(args[c]).config
BypassFn(c) == IF IsNone(Cfg(c)) THEN None ELSE Val(Cfg(c)).bypass_function
\* the call got as far as the bypass step: strategy resolved, key extracted
Extracted(c) == ~IsNone(local[c])
Strategy(c) == Val(local[c]).strategy
Key(c) == Val(local[c]).key
\* the place of the call among the check calls counted in its key's window,
\* 0 when its increment failed
Nth(c) == store_calls[c][1].nth
Counted(c) ==
  /\ pc[c] = "done" /\ op[c] = "check"
  /\ store_calls[c] # <<>> /\ Nth(c) > 0
GenericError(c) ==
  IF op[c] = "check" THEN RateLimitException("Rate limit check failed", "")
  ELSE RateLimitException("Usage check failed", "")

\* C1: the n-th check counted on a key in one window is allowed, with
\* current_count = n, for every n up to the limit of its strategy (the limit
\* included), and the call after the limit is denied with retry_after = ttl.
C1_FirstLAllowedThenDenied ==
  \A c \in Callers :
    Counted(c) =>
      /\ Nth(c) <= Strategy(c).limit =>
            /\ result[c].kind = "result"
            /\ result[c].allowed
            /\ result[c].current_count = Nth(c)
      /\ Nth(c) = Strategy(c).limit + 1 =>
            /\ result[c].kind = "exceeded"
            /\ result[c].detail.retry_after = Some(Strategy(c).ttl)

C1_Witness ==
  \E c \in Callers :
    /\ Counted(c)
    /\ Strategy(c).limit = MaxLimit
    /\ Nth(c) = MaxLimit + 1
    /\ result[c].kind = "exceeded"
    /\ result[c].detail.retry_after = Some(Strategy(c).ttl)

\* C2: whatever the interleaving of the callers, the counter of a key is the
\* number of check calls counted on it in its window: none of their
\* increments is lost and none is applied twice, and the calls in flight at
\* once are numbered apart.
C2_NoLostUpdate ==
  /\ \A k \in Keys : store[k].count = issued[k]
  /\ \A c \in Callers : Counted(c) /\ result[c].kind = "result" =>
        result[c].current_count = Nth(c)

C2_Witness ==
  /\ \A c \in Callers : Counted(c) /\ Key(c) = <<"IP", "a">>
  /\ {Nth(c) : c \in Callers} = 1..NumCallers
  /\ store[<<"IP", "a">>].count = NumCallers

\* C3: get_current_usage reports the stored count n with allowed = (n < limit):
\* allowed for every count below the limit, and denied with retry_after = ttl
\* at the limit, the count an allowed check leaves behind.
C3_UsageExclusive ==
  [][\A c \in Callers :
       (op[c] = "usage" /\ pc[c] = "store" /\ result'[c].kind = "result") =>
         LET n == store[Key(c)].count IN
         /\ result'[c].current_count = n
         /\ n < Strategy(c).limit =>
               result'[c].allowed /\ IsNone(result'[c].retry_after)
         /\ n >= Strategy(c).limit =>
               /\ ~result'[c].allowed
               /\ result'[c].retry_after = Some(Strategy(c).ttl)]_vars

C3_Witness ==
  \E c \in Callers :
    /\ pc[c] = "done" /\ op[c] = "usage" /\ result[c].kind = "result"
    /\ result[c].limit = MaxLimit
    /\ result[c].current_count = MaxLimit
    /\ issued[Key(c)] = MaxLimit
    /\ ~result[c].allowed

\* C4: no step of get_current_usage changes the store: the count and the
\* expiry of every key are the same after it, the only store operation it
\* issues is get_current_count, and the count it returns is the stored one.
C4_UsageReadOnly ==
  [][\A c \in Callers :
       (op'[c] = "usage" /\ pc'[c] # pc[c]) =>
         /\ store' = store
         /\ \A i \in DOMAIN store_calls'[c] :
               store_calls'[c][i].op = "get_current_count"
         /\ result'[c].kind = "result" =>
               result'[c].current_count = store'[Key(c)'].count]_vars

C4_Witness ==
  \E c \in Callers :
    /\ pc[c] = "done" /\ op[c] = "usage" /\ result[c].kind = "result"
    /\ result[c].current_count > 0
    /\ store[Key(c)].count = result[c].current_count
    /\ store_calls[c] # <<>>

\* C5: a check whose bypass predicate returns true returns allowed with
\* current_count 0 and issues no store operation: every counter is as before.
C5_BypassLeavesStore ==
  [][\A c \in Callers :
       (/\ pc[c] = "idle" /\ op'[c] = "check" /\ Extracted(c)'
        /\ BypassFn(c)' = Some("returns_true")) =>
         /\ pc'[c] = "done"
         /\ result'[c].kind = "result"
         /\ result'[c].allowed
         /\ result'[c].current_count = 0
         /\ store_calls'[c] = <<>>
         /\ store' = store]_vars

C5_Witness ==
  \E c \in Callers :
    /\ pc[c] = "done" /\ op[c] = "check" /\ Extracted(c)
    /\ BypassFn(c) = Some("returns_true")
    /\ result[c].kind = "result" /\ result[c].current_count = 0
    /\ store[Key(c)].count > Strategy(c).limit

\* C6: a check whose bypass predicate raises logs the failure and goes on: it
\* issues exactly one increment on the extracted key, fails only when the
\* store does, and is allowed or denied by its place in the window alone.
C6_BypassRaisesCounts ==
  \A c \in Callers :
    (/\ pc[c] = "done" /\ op[c] = "check" /\ Extracted(c)
     /\ BypassFn(c) = Some("raises")) =>
       /\ Len(store_calls[c]) = 1
       /\ store_calls[c][1].op = "increment_counter"
       /\ store_calls[c][1].key = Key(c)
       /\ logged[c][1] = BypassFailed
       /\ Nth(c) = 0 => result[c] = GenericError(c) /\ logged[c][2] = StoreError
       /\ (Nth(c) > 0 /\ Nth(c) <= Strategy(c).limit) =>
             /\ result[c].kind = "result" /\ result[c].allowed
             /\ result[c].current_count = Nth(c)
       /\ Nth(c) > Strategy(c).limit => result[c].kind = "exceeded"

C6_Witness ==
  \E c \in Callers :
    /\ pc[c] = "done" /\ op[c] = "check" /\ Extracted(c)
    /\ BypassFn(c) = Some("raises")
    /\ result[c].kind = "exceeded"
    /\ Len(store_calls[c]) = 1

\* C7: the strategy of a call is config.strategy when present, whatever the
\* registry holds; otherwise the registry's entry for config.strategy_name when
\* present, the call failing when there is none; otherwise the registry's entry
\* for default_strategy_name, the call failing when there is none.
ResolvedToNext(c, s) ==
  \/ ~IsNone(local'[c]) /\ Val(local'[c]).strategy = s
  \/ IsNone(local'[c]) /\ logged'[c] = <<KeyExtractionError>>
ResolutionFailedNext(c, message, name) ==
  /\ IsNone(local'[c]) /\ pc'[c] = "done" /\ result'[c].kind = "error"
  /\ logged'[c] = <<RateLimitException(message, name)>>
  /\ store_calls'[c] = <<>>
ResolutionFailed(c, message, name) ==
  /\ ~Extracted(c) /\ pc[c] = "done" /\ result[c].kind = "error"
  /\ logged[c] = <<RateLimitException(message, name)>>
  /\ store_calls[c] = <<>>
C7_ResolutionOrder ==
  [][\A c \in Callers :
       (pc[c] = "idle" /\ pc'[c] # "idle") =>
         LET a == Val(args'[c])
             config == a.config
             dsn == a.default_strategy_name
         IN IF ~IsNone(config) /\ ~IsNone(Val(config).strategy)
              THEN ResolvedToNext(c, Val(Val(config).strategy))
            ELSE IF ~IsNone(config) /\ ~IsNone(Val(config).strategy_name)
              THEN LET name == Val(Val(config).strategy_name) IN
                   IF name \in DOMAIN strategy_map
                     THEN ResolvedToNext(c, strategy_map[name])
                     ELSE ResolutionFailedNext(c, "Unknown strategy name", name)
            ELSE IF dsn \in DOMAIN strategy_map
              THEN ResolvedToNext(c, strategy_map[dsn])
              ELSE ResolutionFailedNext(c, "Default strategy not found", dsn)]_vars

C7_Witness ==
  \E c \in Callers :
    /\ pc[c] = "done"
    /\ ~IsNone(Cfg(c)) /\ IsNone(Val(Cfg(c)).strategy)
    /\ Val(Cfg(c)).strategy_name = Some("long")
    /\ Val(args[c]).default_strategy_name = "medium"
    /\ DOMAIN strategy_map = {"short", "medium"}
    /\ ResolutionFailed(c, "Unknown strategy name", "long")

\* C8 and C9: what the call caught
UnknownStrategy(c) ==
  /\ pc[c] = "done" /\ logged[c] # <<>>
  /\ logged[c][1].kind = "error" /\ logged[c][1].type = "RateLimitException"
StoreFailed(c) ==
  /\ pc[c] = "done" /\ logged[c] # <<>>
  /\ logged[c][Len(logged[c])] = StoreError

\* C8 as stated: a call that names a strategy the registry lacks raises an
\* error that identifies the unknown strategy, and issues no store operation.
C8_UnknownStrategyPropagates ==
  \A c \in Callers :
    UnknownStrategy(c) =>
      /\ result[c] = logged[c][1]
      /\ store_calls[c] = <<>>

\* C8 as amended: such a call raises the RateLimitException of status 500 with
\* the fixed message of its operation, the error a store failure and a key
\* extraction failure raise too, and issues no store operation.
C8_UnknownStrategyWrapped ==
  \A c \in Callers :
    /\ UnknownStrategy(c) =>
         /\ result[c] = GenericError(c)
         /\ result[c].status_code = StatusServerError
         /\ store_calls[c] = <<>>
    /\ (pc[c] = "done" /\ result[c].kind = "error") => result[c] = GenericError(c)

C8_Witness ==
  \E c \in Callers :
    /\ UnknownStrategy(c) /\ op[c] = "check"
    /\ logged[c][1].message = "Unknown strategy name"
    /\ result[c] = GenericError(c)

\* C9 as stated: a failure of the store reaches the caller unmodified.
C9_StoreErrorPropagates ==
  \A c \in Callers : StoreFailed(c) => result[c] = StoreError

\* C9 as amended: a failure of the store is caught, logged and replaced by the
\* RateLimitException of status 500 with the fixed message of the operation;
\* the call returns no result and no exceeded signal.
C9_StoreErrorWrapped ==
  \A c \in Callers :
    StoreFailed(c) =>
      /\ result[c] = GenericError(c)
      /\ result[c].kind = "error"
      /\ Len(store_calls[c]) = 1

C9_Witness ==
  \E c \in Callers :
    /\ StoreFailed(c) /\ op[c] = "usage"
    /\ result[c] = GenericError(c)
\* C10: what the check of a dispatch raised, other than the exceeded signal
CheckFailed(c) ==
  /\ mw_stage[c] \notin {"none", "check"}
  /\ pc[c] = "done" /\ result[c].kind = "error"

\* C10 as stated: a request whose check raised a true error is never forwarded
\* to the handler, and is answered with a failure.
C10_ErrorNotForwarded ==
  \A c \in Callers :
    CheckFailed(c) =>
      /\ forwarded[c] = 0
      /\ mw_stage[c] = "done" => response[c].kind = "raised"

\* C10 as amended: a request whose check raised a true error (store failure,
\* unknown strategy, key extraction failure) is forwarded to the handler, once
\* and without rate limit headers: it is answered as the handler answers it,
\* and the middleware makes no failure or rejection of its own for it.
C10_ErrorFailsOpen ==
  \A c \in Callers :
    CheckFailed(c) =>
      /\ mw_stage[c] = "call_next" => in_try[c] = "except" /\ forwarded[c] = 0
      /\ mw_stage[c] = "done" =>
            /\ forwarded[c] = 1
            /\ response[c] \in {HandlerResponse(None), Raised(HandlerError)}

C10_Witness ==
  \E c \in Callers :
    /\ CheckFailed(c) /\ mw_stage[c] = "done"
    /\ logged[c] = <<StoreError>>
    /\ forwarded[c] = 1
    /\ response[c] = HandlerResponse(None)

\* C11: a check whose strategy resolves and whose key extraction fails
ExtractionFails(a) ==
  /\ _determine_strategy(strategy_map, a.config, a.default_strategy_name).ok
  /\ ~extract_key(a.request, _determine_key_strategy(a.config)).ok

\* C11 as stated: such a check raises the extraction error itself; the bypass
\* predicate is not called, no store operation is issued and every counter is
\* as before.
C11_ExtractionErrorPropagates ==
  [][\A c \in Callers :
       (pc[c] = "idle" /\ op'[c] = "check" /\ ExtractionFails(Val(args'[c]))) =>
         /\ pc'[c] = "done"
         /\ result'[c] = KeyExtractionError
         /\ logged'[c] = <<KeyExtractionError>>
         /\ store_calls'[c] = <<>>
         /\ store' = store]_vars

\* C11 as amended: such a check logs the extraction error and raises the
\* RateLimitException of status 500 with the fixed message of check; the bypass
\* predicate is not called (nothing of it is logged, and one that returns true
\* exempts nothing), no store operation is issued and every counter is as
\* before.
C11_ExtractionErrorWrapped ==
  [][\A c \in Callers :
       (pc[c] = "idle" /\ op'[c] = "check" /\ ExtractionFails(Val(args'[c]))) =>
         /\ pc'[c] = "done"
         /\ result'[c] = RateLimitException("Rate limit check failed", "")
         /\ logged'[c] = <<KeyExtractionError>>
         /\ store_calls'[c] = <<>>
         /\ store' = store]_vars

C11_Witness ==
  \E c \in Callers :
    /\ pc[c] = "done" /\ op[c] = "check" /\ ExtractionFails(Val(args[c]))
    /\ BypassFn(c) = Some("raises")
    /\ logged[c] = <<KeyExtractionError>>
    /\ result[c] = GenericError(c)
    /\ \E k \in Keys : store[k].count > 0

\* C12: the maps update_strategies installs, each the whole map of one list
CompleteMaps == {StrategyMapOf(strategies) : strategies \in StrategyLists}
\* the call of caller c resolves its strategy, in this step, against map
ResolvesAgainstNext(c, map) ==
  LET a == Val(args'[c])
      r == _determine_strategy(map, a.config, a.default_strategy_name)
  IN IF r.ok THEN ResolvedToNext(c, r.strategy)
     ELSE /\ IsNone(local'[c]) /\ pc'[c] = "done"
          /\ logged'[c] = <<r.exc>>

\* C12: whatever the interleaving of update_strategies with the callers, the
\* registry is at every moment the whole map of one list, the one before the
\* update or the one after it, never some names of each; a call resolves its
\* strategy against the registry of the moment it reads it, and when no update
\* is in flight the registry is the map of the list last installed.
C12_AtomicSwap ==
  [][/\ strategy_map' \in CompleteMaps
     /\ strategy_map' \in {strategy_map, StrategyMapOf(default_strategies)}
     /\ \A c \in Callers :
          (pc[c] = "idle" /\ pc'[c] # "idle") =>
             /\ strategy_map \in CompleteMaps
             /\ ResolvesAgainstNext(c, strategy_map)]_vars

C12_Witness ==
  \E c, d \in Callers :
    /\ default_strategies = ListB
    /\ strategy_map = StrategyMapOf(ListA)
    /\ pc[c] = "store" /\ Cfg(c) = None /\ Strategy(c) = ListA[2]
    /\ pc[d] = "done" /\ ~IsNone(Cfg(d))
    /\ Val(Cfg(d)).strategy_name = Some("long")
    /\ ResolutionFailed(d, "Unknown strategy name", "long")

\* C13: the names of a list, and the name a call resolves its strategy by
ListNames(strategies) == {strategies[i].name : i \in DOMAIN strategies}
NamesUsed(a) ==
  IF ~IsNone(a.config) /\ ~IsNone(Val(a.config).strategy) THEN {}
  ELSE IF ~IsNone(a.config) /\ ~IsNone(Val(a.config).strategy_name)
    THEN {Val(Val(a.config).strategy_name)}
  ELSE {a.default_strategy_name}
UnknownNameError(a) ==
  IF ~IsNone(a.config) /\ ~IsNone(Val(a.config).strategy_name)
    THEN RateLimitException("Unknown strategy name",
                            Val(Val(a.config).strategy_name))
    ELSE RateLimitException("Default strategy not found",
                            a.default_strategy_name)
\* caller c starts, in this step, a call that names a strategy which the list
\* of the last update_strategies does not hold
CallsRemovedNameNext(c) ==
  /\ pc[c] = "idle" /\ pc'[c] # "idle"
  /\ installed.op = "update_strategies"
  /\ \E n \in NamesUsed(Val(args'[c])) : n \notin ListNames(Val(installed.arg))
ListsNext ==
  /\ returned'.op = "list_strategies"
  /\ installed.op = "update_strategies"
  /\ UNCHANGED << strategy_map, pc, installed >>

\* C13 as stated: after update_strategies(list) the registry is exactly the
\* map of list; every later check or get_current_usage that names a strategy
\* the list does not hold, by config.strategy_name or as the default, raises
\* the unknown-strategy error; list_strategies returns exactly the new map.
C13_RemovedNameRaisesUnknown ==
  [][/\ installed'.op = "update_strategies" =>
          strategy_map' = StrategyMapOf(Val(installed'.arg))
     /\ \A c \in Callers : CallsRemovedNameNext(c) =>
          /\ pc'[c] = "done"
          /\ result'[c] = UnknownNameError(Val(args'[c]))
          /\ store_calls'[c] = <<>>
     /\ ListsNext => returned'.value = StrategyMapOf(Val(installed.arg))]_vars

\* C13 as amended: the same, but such a call logs the unknown-strategy error
\* and raises the RateLimitException of status 500 with the fixed message of
\* its operation.
C13_RemovedNameFails ==
  [][/\ installed'.op = "update_strategies" =>
          strategy_map' = StrategyMapOf(Val(installed'.arg))
     /\ \A c \in Callers : CallsRemovedNameNext(c) =>
          /\ pc'[c] = "done"
          /\ logged'[c] = <<UnknownNameError(Val(args'[c]))>>
          /\ result'[c] = GenericError(c)'
          /\ store_calls'[c] = <<>>
          /\ store' = store
     /\ ListsNext => returned'.value = StrategyMapOf(Val(installed.arg))]_vars

C13_Witness ==
  \E c \in Callers :
    /\ installed = Installed("update_strategies", Some(<<>>), TRUE)
    /\ strategy_map = StrategyMapOf(<<>>)
    /\ returned.op = "list_strategies" /\ returned.value = StrategyMapOf(<<>>)
    /\ pc[c] = "done" /\ op[c] = "usage" /\ Cfg(c) = None
    /\ ResolutionFailed(c, "Default strategy not found", "medium")
    /\ result[c] = GenericError(c)

\* C14: the step of a check that increments key k, passing strategy.ttl
IncrementsNext(c, k) ==
  /\ pc[c] = "store" /\ op[c] = "check" /\ pc'[c] = "done"
  /\ Key(c) = k /\ Nth(c)' > 0

\* C14: every key that exists has an expiry ahead of it, which is the ttl
\* passed by the increment that created the key less the seconds passed since:
\* the increment that creates a key sets its expiry to the ttl it passes, a
\* later increment, whatever ttl it passes, leaves the remaining expiry as it
\* is, and the key is removed when the ttl of its creation has passed.
C14_FixedWindow ==
  [][\A k \in Keys :
       /\ store'[k].count > 0 =>
            /\ store'[k].ttl > 0
            /\ store'[k].ttl = window'[k].ttl - window'[k].age
       /\ \A c \in Callers : IncrementsNext(c, k) =>
            IF store[k].count = 0
              THEN /\ store'[k].ttl = Strategy(c).ttl
                   /\ window'[k].ttl = Strategy(c).ttl
              ELSE /\ store'[k].ttl = store[k].ttl
                   /\ store'[k].count = store[k].count + 1
       /\ (store[k].count > 0 /\ store'[k].count = 0) =>
            window[k].age + 1 = window[k].ttl]_vars

\* a key created with ttl 2 was incremented a second later by a check that
\* passed ttl 1, and has one second left
C14_Witness ==
  \E c \in Callers :
    /\ Counted(c) /\ Nth(c) = 2 /\ Strategy(c).ttl = 1
    /\ window[Key(c)] = [ttl |-> 2, age |-> 1]
    /\ store[Key(c)].ttl = 1
    /\ store[Key(c)].count = 2

\* C15: no step of the engine or of the middleware lowers or removes a
\* counter (only the passing of time does); the increment of a check raises
\* the counter of its key by one whether the request is then allowed or
\* denied, so denied requests raise it above the limit; and the request stays
\* counted, for as long as the window of its key lasts, whatever happens to
\* it afterwards, the failure of its handler included.
C15_NoRefund ==
  [][\/ Tick
     \/ /\ \A k \in Keys : store'[k].count >= store[k].count
        /\ \A c \in Callers : \A k \in Keys : IncrementsNext(c, k) =>
              /\ store'[k].count = store[k].count + 1
              /\ result'[c].kind \in {"result", "exceeded"}
              /\ result'[c].kind = "exceeded" =>
                    store'[k].count > Strategy(c).limit
        /\ \A c \in Callers : (Counted(c)' /\ issued'[Key(c)'] > 0) =>
              store'[Key(c)'].count >= Nth(c)']_vars

\* a request was counted and allowed, and its handler then failed
C15_Witness ==
  \E c \in Callers :
    /\ mw_stage[c] = "done" /\ response[c] = Raised(HandlerError)
    /\ Counted(c) /\ result[c].kind = "result"
    /\ Nth(c) = Strategy(c).limit
    /\ store[Key(c)].count = Nth(c)

\* C16: the message of the exceeded signal of a call, custom or the template
TemplateMessage(c) ==
  <<"Rate limit exceeded. Maximum", Strategy(c).limit, "requests per",
    Strategy(c).ttl, "seconds. Please try again in", Strategy(c).ttl,
    "seconds.">>
\* as stated: the custom message of the config whenever it has one
MessageWhenPresent(c) ==
  IF ~IsNone(Cfg(c)) /\ ~IsNone(Val(Cfg(c)).custom_error_message)
    THEN <<Val(Val(Cfg(c)).custom_error_message)>>
    ELSE TemplateMessage(c)
\* as amended: the custom message when the config has one that is not empty
MessageWhenNotEmpty(c) ==
  IF /\ ~IsNone(Cfg(c)) /\ ~IsNone(Val(Cfg(c)).custom_error_message)
     /\ Val(Val(Cfg(c)).custom_error_message) # ""
    THEN <<Val(Val(Cfg(c)).custom_error_message)>>
    ELSE TemplateMessage(c)
ExceededDetail(c, message) ==
  [message |-> message, retry_after |-> Some(Strategy(c).ttl),
   limit |-> Strategy(c).limit, window |-> Strategy(c).ttl]
\* a check raises the exceeded signal, with this message, exactly when its
\* count after the increment is above the limit; the middleware answers that
\* request with the status, detail and headers of the signal and never calls
\* the handler for it
ExceededIsRejected(c, message) ==
  /\ (Counted(c) /\ Nth(c) > Strategy(c).limit) =>
        /\ result[c].kind = "exceeded"
        /\ result[c].status_code = StatusTooMany
        /\ result[c].detail = ExceededDetail(c, message)
  /\ (pc[c] = "done" /\ result[c].kind = "exceeded") =>
        /\ Counted(c) /\ Nth(c) > Strategy(c).limit
        /\ forwarded[c] = 0
        /\ mw_stage[c] \in {"check", "done"}
        /\ mw_stage[c] = "done" =>
              response[c] = JSONResponse(StatusTooMany, result[c].detail,
                                         result[c].headers)

\* C16 as stated: a check whose count after the increment is above the limit
\* raises the exceeded signal, of status 429, with retry_after = ttl, limit,
\* window = ttl and the message, which is config.custom_error_message when
\* present and the template otherwise; the middleware answers the request with
\* that rejection and does not call the handler.
C16_CustomMessageWhenPresent ==
  \A c \in Callers : ExceededIsRejected(c, MessageWhenPresent(c))

\* C16 as amended: the same, the message being config.custom_error_message
\* when present and not empty, and the template otherwise.
C16_ExceededIsRejected ==
  \A c \in Callers : ExceededIsRejected(c, MessageWhenNotEmpty(c))

C16_Witness ==
  \E c \in Callers :
    /\ Counted(c) /\ Nth(c) > Strategy(c).limit
    /\ Val(Cfg(c)).custom_error_message = Some("")
    /\ mw_stage[c] = "done" /\ response[c].kind = "rejected"
    /\ response[c].status_code = StatusTooMany
    /\ response[c].content.message = TemplateMessage(c)
    /\ forwarded[c] = 0

\* C17: the registry as the last call that installed a list left it
InstalledMap == StrategyMapOf(Val(installed.arg))
\* an accessor returns, in this step
AccessorNext(o) ==
  /\ returned'.op = o
  /\ UNCHANGED << strategy_map, default_strategies, installed, pc >>

\* C17: whatever the caller writes into the dictionary list_strategies
\* returned to it, or into the list it passed to update_strategies, the
\* registry stays the map of the list as it was passed: only update_strategies
\* changes it, and every later list_strategies, get_strategy and resolution
\* gives what it would have given without those writes.
C17_CopyOnRead ==
  [][/\ strategy_map' # strategy_map =>
          /\ installed' # installed
          /\ installed'.op = "update_strategies"
     /\ strategy_map' = InstalledMap'
     /\ (AccessorNext("list_strategies") /\ ~returned'.written) =>
          returned'.value = InstalledMap
     /\ AccessorNext("get_strategy") =>
          returned'.strategy = MapGet(InstalledMap, returned'.arg)
     /\ \A c \in Callers : (pc[c] = "idle" /\ pc'[c] # "idle") =>
          ResolvesAgainstNext(c, InstalledMap)]_vars

\* the caller has emptied the dictionary it was returned and the list it
\* passed, and a call by the default name resolves as before
C17_Witness ==
  \E c \in Callers :
    /\ installed = Installed("update_strategies", Some(ListA), TRUE)
    /\ default_strategies = <<>>
    /\ returned.op = "list_strategies" /\ returned.written
    /\ returned.value = StrategyMapOf(<<>>)
    /\ strategy_map = StrategyMapOf(ListA)
    /\ pc[c] = "store" /\ op[c] = "usage" /\ Cfg(c) = None
    /\ Strategy(c) = ListA[2]

\* C18: the request in dispatch is one to the status endpoint
IsStatusRequest(c) ==
  /\ mw_stage[c] # "none"
  /\ Val(mw_call[c]).request.path = StatusPath

\* C18 as stated: no step of a request to /api/rate-limit-status changes a
\* counter: when the request is answered, the counter of the caller is what
\* it was when the request came (unless its window ended meanwhile).
C18_StatusRequestNotCounted ==
  [][\/ Tick
     \/ \A c \in Callers : IsStatusRequest(c) =>
           \A k \in Keys : store'[k].count = store[k].count]_vars

\* what happens: dispatch has counted the request before the handler reads
\* the counter, and the status reports the request itself
C18_Witness ==
  \E c \in Callers :
    /\ IsStatusRequest(c) /\ mw_stage[c] = "done"
    /\ Counted(c) /\ Nth(c) = 1
    /\ store[<<"IP", "a">>].count = 1
    /\ response[c].body.kind = "result"
    /\ response[c].body.current_count = 1

\* C19 as stated: right after the engine constructor, or the middleware
\* constructor, was given a list, the empty list included, the registry is
\* exactly the map of that list; the built-in strategies are there only when
\* the engine constructor was given none.
C19_RegistryIsSuppliedList ==
  /\ (installed.op \in {"__init__", "middleware.__init__"}
      /\ ~IsNone(installed.arg)) =>
        strategy_map = StrategyMapOf(Val(installed.arg))
  /\ (installed.op = "__init__" /\ IsNone(installed.arg)) =>
        strategy_map = StrategyMapOf(get_default_strategies)

\* what happens: the engine constructed with the empty list holds the
\* built-in strategies, and a call by the default name is served under the
\* built-in MEDIUM
C19_Witness ==
  \E c \in Callers :
    /\ installed = Installed("__init__", Some(<<>>), FALSE)
    /\ strategy_map = StrategyMapOf(get_default_strategies)
    /\ pc[c] = "done" /\ op[c] = "check" /\ Cfg(c) = None
    /\ result[c].kind = "result"
    /\ result[c].limit = MediumLimit /\ result[c].ttl = MediumTtl

\* C20: the request that dispatch takes up in this step is one it skips: the
\* middleware is disabled, the path starts with an excluded path, or the
\* config of the route is disabled
SkippedNext(c) ==
  LET req == Val(mw_call'[c]).request
      route_config == Val(mw_call'[c]).route_config
  IN \/ ~mw_enabled
     \/ \E i \in DOMAIN ExcludedPaths : StartsWith(req.path, ExcludedPaths[i])
     \/ ~IsNone(route_config) /\ ~Val(route_config).enabled

\* C20: a skipped request goes straight to the handler: its dispatch never
\* comes to the check, so no check is made and no store operation issued for
\* it, and it is answered only after the handler was called. Every other
\* request comes to the check, goes on only when one check_rate_limit, with
\* the arguments of dispatch, has returned or raised, is never checked again,
\* and has at most one store operation, an increment, issued for it, before
\* the handler is called.
C20_SkipsOrChecksOnce ==
  [][\A c \in Callers :
       /\ (mw_stage[c] = "none" /\ mw_stage'[c] # "none") =>
            IF SkippedNext(c)
              THEN mw_stage'[c] = "call_next" /\ pc'[c] = "idle"
              ELSE mw_stage'[c] = "check" /\ pc'[c] = "idle"
       /\ (mw_stage'[c] = "check" /\ mw_stage[c] # "check") =>
            mw_stage[c] = "none"
       /\ (mw_stage[c] # "none" /\ pc'[c] # pc[c]) =>
            \/ mw_stage[c] = "check" /\ pc[c] # "done" /\ op'[c] = "check"
                 /\ args'[c] = IF pc[c] = "idle" THEN Some(MwCheckCall(c))
                                ELSE args[c]
            \/ mw_stage'[c] = "none"
       /\ (mw_stage[c] = "check" /\ mw_stage'[c] # "check") =>
            pc[c] = "done" /\ forwarded[c] = 0
       /\ (mw_stage[c] # "none" /\ store_calls'[c] # store_calls[c]
           /\ mw_stage'[c] # "none") =>
            /\ mw_stage[c] = "check"
            /\ Len(store_calls'[c]) = 1
            /\ store_calls'[c][1].op = "increment_counter"
       /\ (mw_stage[c] # "none" /\ mw_stage[c] # "check" /\ mw_stage'[c] # "none") =>
            store' = store \/ Tick
       /\ forwarded'[c] > forwarded[c] => mw_stage[c] = "call_next"
       /\ (mw_stage'[c] = "done" /\ mw_stage[c] = "call_next") =>
            forwarded'[c] >= 1]_vars

\* a request to a path that starts with an excluded path, taken up while
\* counters exist, was answered by the handler with no check made
C20_Witness ==
  \E c \in Callers :
    /\ mw_enabled
    /\ mw_stage[c] = "done" /\ Val(mw_call[c]).request = HealthRequest
    /\ IsNone(Val(mw_call[c]).route_config)
    /\ pc[c] = "idle" /\ store_calls[c] = <<>>
    /\ forwarded[c] = 1 /\ response[c] = HandlerResponse(None)
    /\ store[<<"IP", "a">>].count > 0

\* C21 as stated: dispatch invokes the handler at most once for a request,
\* whichever way the check ends and whether the handler answers or raises.
C21_CallNextAtMostOnce ==
  \A c \in Callers : forwarded[c] <= 1

\* what happens: the check allowed the request, the handler raised inside
\* dispatch's try, the exception was caught there and the handler was invoked
\* a second time, after the request was counted once
C21_Witness ==
  \E c \in Callers :
    /\ mw_stage[c] = "done" /\ in_try[c] = "except"
    /\ pc[c] = "done" /\ result[c].kind = "result" /\ result[c].allowed
    /\ Counted(c)
    /\ forwarded[c] = 2

\* C22: the lesser of two numbers
Min(a, b) == IF a <= b THEN a ELSE b
\* C22: the strategy every check of the callers resolves to
QuotaStrategy == Val(MapGet(strategy_map, "medium"))

\* C22: with every check on a key made under one strategy of limit L, in
\* whatever order the callers' steps interleave, of the N checks counted in
\* the window of the key exactly min(N, L) were allowed and the N - min(N, L)
\* others denied; once a check was denied, every check counted after it in the
\* window is denied; and the denials are only forgotten when the window of the
\* key ends.
C22_ExactlyMinAllowed ==
  [][\A k \in Keys :
       LET L == QuotaStrategy.limit
           N == issued'[k]
       IN /\ verdicts'[k].allowed = Min(N, L)
          /\ verdicts'[k].denied = N - Min(N, L)
          /\ \A c \in Callers :
               (IncrementsNext(c, k) /\ verdicts[k].denied > 0) =>
                 /\ result'[c].kind = "exceeded"
                 /\ verdicts'[k].denied = verdicts[k].denied + 1
          /\ verdicts'[k].denied < verdicts[k].denied =>
               /\ store'[k].count = 0
               /\ window[k].age + 1 = window[k].ttl]_vars

\* two checks in flight at once were both counted past the limit and both
\* denied, after exactly as many checks as the limit were allowed
C22_Witness ==
  \E c, d \in Callers :
    /\ c # d /\ Counted(c) /\ Counted(d)
    /\ Key(c) = Key(d)
    /\ QuotaStrategy.limit = MaxLimit
    /\ Strategy(c) = QuotaStrategy /\ Strategy(d) = QuotaStrategy
    /\ Nth(c) = MaxLimit + 1 /\ Nth(d) = MaxLimit + 2
    /\ result[c].kind = "exceeded" /\ result[d].kind = "exceeded"
    /\ issued[Key(c)] = MaxLimit + 2
    /\ verdicts[Key(c)] = [allowed |-> MaxLimit, denied |-> 2]

\* C23: the key of a call, from its request and its key extraction strategy
\* (the one of its config, IP by default) and from nothing else
RequestKey(a) ==
  LET key_strategy ==
        IF IsNone(a.config) \/ IsNone(Val(a.config).key_extraction)
          THEN IpKeyStrategy
          ELSE Val(Val(a.config).key_extraction)
  IN IF key_strategy.type = "IP" THEN <<"IP", a.request.ip>>
     ELSE <<"HEADER", Val(a.request.header)>>

\* C23: the key of a check or of a usage read is the one its request and key
\* extraction strategy give, whatever strategy the call resolved to. The
\* increment of a check raises the counter of that key, and no other, by one,
\* from whatever the checks of every strategy left in it, and the check is
\* judged by that count against its own limit; the expiry of the key is the
\* ttl of the check that created it, and a check of another ttl leaves it as
\* it is. A usage read reports the counter of that key, as the checks of
\* every strategy left it, against its own limit.
C23_KeyIgnoresStrategy ==
  [][\A c \in Callers :
       /\ (local'[c] # local[c] /\ Extracted(c)') =>
            Key(c)' = RequestKey(Val(args'[c]))
       /\ \A k \in Keys : IncrementsNext(c, k) =>
            /\ k = RequestKey(Val(args[c]))
            /\ store[k].count = issued[k]
            /\ store'[k].count = issued[k] + 1
            /\ \A j \in Keys \ {k} : store'[j] = store[j]
            /\ result'[c].kind = "result" =>
                 /\ result'[c].key = k
                 /\ result'[c].current_count = issued[k] + 1
            /\ (result'[c].kind = "result") = (issued[k] + 1 <= Strategy(c).limit)
            /\ IF issued[k] = 0
                 THEN /\ store'[k].ttl = Strategy(c).ttl
                      /\ window'[k] = [ttl |-> Strategy(c).ttl, age |-> 0]
                 ELSE /\ store'[k].ttl = store[k].ttl
                      /\ window'[k] = window[k]
       /\ (op[c] = "usage" /\ pc[c] = "store" /\ result'[c].kind = "result") =>
            /\ result'[c].key = RequestKey(Val(args[c]))
            /\ result'[c].current_count = issued[RequestKey(Val(args[c]))]
            /\ result'[c].allowed =
                 (issued[RequestKey(Val(args[c]))] < Strategy(c).limit)
            /\ store' = store]_vars

\* the first check under the strategy SHORT of the list (limit 1, ttl 1) was
\* denied, because a check of the same request under a strategy of ttl 2 had
\* created the counter and been counted on it; the window is still that of ttl 2
C23_Witness ==
  \E c \in Callers :
    /\ Counted(c) /\ Strategy(c) = ListA[1]
    /\ Key(c) = RequestKey(Val(args[c]))
    /\ Nth(c) = 2 /\ result[c].kind = "exceeded"
    /\ verdicts[Key(c)] = [allowed |-> 1, denied |-> 1]
    /\ window[Key(c)] = [ttl |-> 2, age |-> 0]
    /\ store[Key(c)] = [count |-> 2, ttl |-> 2]
====
